---- MODULE Spec2Model ----
(***************************************************************************)
(* A model of three programs of the repository:                            *)
(*   - sell_token (src/sell.py): balance check, curve fetch, price, and    *)
(*     the bounded retry loop around blockhash fetch / send / confirm;     *)
(*   - PriorityFeeManager.calculate_priority_fee                           *)
(*     (src/src/core/priority_fee/manager.py);                             *)
(*   - monitor_pump and decode_create_instruction                          *)
(*     (src/learning-examples/listen-new-tokens/listen_geyser.py).         *)
(* Each program has its own specification (Spec, FeeSpec, MonitorSpec)     *)
(* over the shared variable list; the variables of the programs a          *)
(* specification does not run stay at their initial value.                 *)
(***************************************************************************)
EXTENDS Integers, Sequences, FiniteSets, TLC

VARIABLES
    \* ---- sell_token ----
    pc,               \* position in sell_token
    max_retries,      \* argument max_retries
    slippage,         \* argument slippage, as a percentage (25 = 0.25)
    token_balance,    \* local token_balance
    curve_state,      \* local curve_state (BondingCurveState or NoState)
    account_info,     \* answer of conn.get_account_info (NoAccount before)
    min_sol_output,   \* local min_sol_output
    attempt,          \* loop variable attempt
    recent_blockhash, \* block reference fetched by the running attempt
    tx,               \* identifier returned by send_transaction
    wait,             \* argument of the pending asyncio.sleep
    clock,            \* seconds slept since the call started
    calls,            \* the awaited calls made so far, in order
    sent,             \* the transactions submitted so far, in order
    out,              \* the lines printed so far, in order
    result,           \* how the call ended (NotReturned while running)
    \* ---- PriorityFeeManager.calculate_priority_fee ----
    fee_pc,           \* position in calculate_priority_fee
    config,           \* the fields the manager was constructed with
    estimator_calls,  \* calls of dynamic_fee_plugin.get_priority_fee so far
    estimate,         \* what the estimator call came to (NoEstimate before)
    base_fee,         \* local base_fee
    warnings,         \* logger.warning calls so far
    fee_result,       \* how calculate_priority_fee ended
    \* ---- monitor_pump ----
    mon_pc,           \* position in monitor_pump
    feed,             \* the updates the stream has yet to deliver
    update,           \* the update being handled
    ix_i,             \* index of the next instruction of the update
    printed,          \* the (info, signature) pairs given to print_token_info
    cancel_requested, \* the task running monitor_pump was cancelled
    mon_result        \* how monitor_pump ended

sellVars == << pc, max_retries, slippage, token_balance, curve_state,
               account_info, min_sol_output, attempt, recent_blockhash, tx, wait, clock,
               calls, sent, out, result >>

feeVars == << fee_pc, config, estimator_calls, estimate, base_fee, warnings,
              fee_result >>

monVars == << mon_pc, feed, update, ix_i, printed, cancel_requested,
              mon_result >>

vars == << sellVars, feeVars, monVars >>

----------------------------------------------------------------------------
(* Bounds of the model *)

MaxRetries == 4
MaxBalance == 2
MaxBlockhash == 2
MaxDeadline == 2

----------------------------------------------------------------------------
(* Bytes and the little-endian integer layouts *)

\* struct.pack("<Q", 6966180631402821399)
EXPECTED_DISCRIMINATOR == << 23, 183, 248, 55, 96, 216, 172, 96 >>

\* struct.pack("<Q", 12502976635542562355)
SELL_DISCRIMINATOR == << 51, 230, 133, 164, 1, 127, 131, 173 >>

\* data[a:b] of Python, 0-based, clipped to the buffer
Slice(data, a, b) ==
    LET hi == IF b > Len(data) THEN Len(data) ELSE b
    IN  IF a >= hi THEN << >> ELSE SubSeq(data, a + 1, hi)

\* a little-endian unsigned integer (Horner form)
RECURSIVE LittleEndian(_)
LittleEndian(bytes) ==
    IF bytes = << >> THEN 0
    ELSE Head(bytes) + 256 * LittleEndian(Tail(bytes))

\* struct.pack("<Q", n) for the small n of the model
PackU64(n) ==
    << n % 256, (n \div 256) % 256, (n \div 65536) % 256, 0, 0, 0, 0, 0 >>

----------------------------------------------------------------------------
(* Values of the Python program *)

\* how a call ended: still running, returned None, returned a transaction
\* identifier, or let an exception escape
NotReturned == [kind |-> "running", tx |-> << >>, exc |-> ""]
ReturnedNone == [kind |-> "return_none", tx |-> << >>, exc |-> ""]
ReturnedTx(sig) == [kind |-> "return_tx", tx |-> sig, exc |-> ""]
Raised(e) == [kind |-> "raise", tx |-> << >>, exc |-> e]

NoState == [virtual_token_reserves |-> 0, virtual_sol_reserves |-> 0,
            real_token_reserves |-> 0, real_sol_reserves |-> 0,
            token_total_supply |-> 0, complete |-> FALSE]

----------------------------------------------------------------------------
(* src/sell.py: the curve account and the price *)

\* BondingCurveState._STRUCT.parse(data[8:]): five Int64ul and one Flag, in
\* this order; fewer than 41 bytes after the discriminator end the parse with
\* construct's StreamError, bytes after the flag are ignored
BondingCurveState(data) ==
    LET body == Slice(data, 8, Len(data))
        u64(i) == LittleEndian(SubSeq(body, 8 * i + 1, 8 * i + 8))
    IN  IF Len(body) < 41
        THEN [ok |-> FALSE, err |-> "StreamError", state |-> NoState]
        ELSE [ok |-> TRUE, err |-> "",
              state |-> [virtual_token_reserves |-> u64(0),
                         virtual_sol_reserves |-> u64(1),
                         real_token_reserves |-> u64(2),
                         real_sol_reserves |-> u64(3),
                         token_total_supply |-> u64(4),
                         complete |-> body[41] # 0]]

\* the answer of conn.get_account_info: value absent, or an account with data
NoAccount == [has_value |-> FALSE, data |-> << >>]
Account(data) == [has_value |-> TRUE, data |-> data]

get_pump_curve_state_discriminator_first(response) ==
    IF Slice(response.data, 0, 8) # EXPECTED_DISCRIMINATOR
    THEN [ok |-> FALSE, err |-> "ValueError: Invalid curve state discriminator",
          state |-> NoState]
    ELSE BondingCurveState(response.data)

get_pump_curve_state(response) ==
    IF ~response.has_value \/ response.data = << >>
    THEN [ok |-> FALSE, err |-> "ValueError: Invalid curve state: No data",
          state |-> NoState]
    ELSE IF Slice(response.data, 0, 8) # EXPECTED_DISCRIMINATOR
    THEN [ok |-> FALSE, err |-> "ValueError: Invalid curve state discriminator",
          state |-> NoState]
    ELSE BondingCurveState(response.data)

InvalidReserveState_token_only(cs) ==
    cs.virtual_token_reserves <= 0

\* the guard of calculate_pump_curve_price
InvalidReserveState(cs) ==
    cs.virtual_token_reserves <= 0 \/ cs.virtual_sol_reserves <= 0

\* the answer of conn.get_token_account_balance
get_token_balance(response) ==
    IF response.has_value THEN response.amount ELSE 0

\* min_sol_output of sell_token:
\*   int((token_balance / 10^6) * price * (1 - slippage) * LAMPORTS_PER_SOL)
\* with price = (virtual_sol_reserves / LAMPORTS_PER_SOL)
\*            / (virtual_token_reserves / 10^6);
\* the two scales cancel, which leaves
\*   balance * virtual_sol_reserves * (1 - slippage) / virtual_token_reserves,
\* computed here in exact arithmetic with the slippage in percent
MinSolOutput(balance, cs, slip) ==
    (balance * cs.virtual_sol_reserves * (100 - slip))
        \div (cs.virtual_token_reserves * 100)

----------------------------------------------------------------------------
(* src/sell.py: sell_token *)

\* the twelve AccountMeta of the sell instruction, in order
SellAccounts ==
    << "PUMP_GLOBAL", "PUMP_FEE", "mint", "bonding_curve",
       "associated_bonding_curve", "associated_token_account", "payer",
       "SYSTEM_PROGRAM", "SYSTEM_ASSOCIATED_TOKEN_ACCOUNT_PROGRAM",
       "SYSTEM_TOKEN_PROGRAM", "PUMP_EVENT_AUTHORITY", "PUMP_PROGRAM" >>

\* data of the sell instruction
SellData(amount, min_out) ==
    SELL_DISCRIMINATOR \o PackU64(amount) \o PackU64(min_out)

SellIx_rescaled(amount, min_out) ==
    [program |-> "PUMP_PROGRAM", data |-> SellData(amount + attempt, min_out),
     accounts |-> SellAccounts]

\* sell_ix as built at the top of every attempt
SellIx(amount, min_out) ==
    [program |-> "PUMP_PROGRAM", data |-> SellData(amount, min_out),
     accounts |-> SellAccounts]

\* the identifier of a submitted transaction: its signature, a function of
\* the signed message (instruction and recent blockhash)
Signature(ix, blockhash) == << blockhash >> \o ix.data

\* an awaited call: what is called, in which attempt, at which time; secs is
\* the argument of asyncio.sleep
Call(op) == [op |-> op, attempt |-> attempt, at |-> clock, secs |-> 0]
SleepCall(w) == [op |-> "sleep", attempt |-> attempt, at |-> clock, secs |-> w]
Line(msg, n) == [msg |-> msg, n |-> n]

\* the zero-balance check left out
NoTokens_never(balance) == FALSE

\* if token_balance == 0
NoTokens(balance) == balance = 0

\* range(max_retries + 1)
InRange_inclusive(a, m) == a <= m

\* for attempt in range(max_retries): the loop runs attempt a
InRange(a, m) == a < m

RetryRemains_never(a, m) == FALSE

\* if attempt < max_retries - 1
RetryRemains(a, m) == a < m - 1

\* a linear backoff, attempt + 1
wait_time_linear(a) == a + 1

\* wait_time = 2 ** attempt
wait_time(a) == 2 ^ a

BalanceResponses ==
    { [has_value |-> FALSE, amount |-> 0] }
        \cup { [has_value |-> TRUE, amount |-> b] : b \in 0..MaxBalance }

CurveBytes(vtr, vsr, complete) ==
    EXPECTED_DISCRIMINATOR \o PackU64(vtr) \o PackU64(vsr)
        \o PackU64(vtr + 1) \o PackU64(vsr + 1) \o PackU64(1000)
        \o << IF complete THEN 1 ELSE 0 >>

AccountResponses ==
    { NoAccount, Account(<< >>),
      Account(SELL_DISCRIMINATOR \o SubSeq(CurveBytes(2, 3, FALSE), 9, 49)),
      Account(SubSeq(CurveBytes(2, 3, FALSE), 1, 20)) }
        \cup { Account(CurveBytes(vtr, vsr, c)) :
                 vtr \in {0, 2}, vsr \in {0, 300}, c \in BOOLEAN }

Slippages == {0, 25}

SellInit ==
    /\ pc = "get_token_balance"
    /\ max_retries \in 0..MaxRetries
    /\ slippage \in Slippages
    /\ token_balance = 0
    /\ curve_state = NoState
    /\ account_info = NoAccount
    /\ min_sol_output = 0
    /\ attempt = 0
    /\ recent_blockhash = 0
    /\ tx = << >>
    /\ wait = 0
    /\ clock = 0
    /\ calls = << >>
    /\ sent = << >>
    /\ out = << >>
    /\ result = NotReturned

\* an exception that leaves sell_token: nothing in the function catches it
Escapes(op, e) ==
    /\ calls' = Append(calls, Call(op))
    /\ result' = Raised(e)
    /\ pc' = "done"
    /\ UNCHANGED << max_retries, slippage, token_balance, curve_state, account_info,
                    min_sol_output, attempt, recent_blockhash, tx, wait,
                    clock, sent, out >>
    /\ UNCHANGED << feeVars, monVars >>

\* token_balance = await get_token_balance(...); the zero-balance return
GetTokenBalance ==
    /\ pc = "get_token_balance"
    /\ \E response \in BalanceResponses :
         LET balance == get_token_balance(response)
         IN  /\ token_balance' = balance
             /\ calls' = Append(calls, Call("get_token_account_balance"))
             /\ IF NoTokens(balance)
                THEN /\ out' = out \o << Line("Token balance", balance),
                                         Line("No tokens to sell.", 0) >>
                     /\ result' = ReturnedNone
                     /\ pc' = "done"
                ELSE /\ out' = Append(out, Line("Token balance", balance))
                     /\ result' = result
                     /\ pc' = "get_pump_curve_state"
    /\ UNCHANGED << max_retries, slippage, curve_state, account_info, min_sol_output,
                    attempt, recent_blockhash, tx, wait, clock, sent >>
    /\ UNCHANGED << feeVars, monVars >>

GetTokenBalanceRaises ==
    /\ pc = "get_token_balance"
    /\ Escapes("get_token_account_balance", "RPCException")

\* curve_state = await get_pump_curve_state(...), the price, min_sol_output,
\* and the entry into the retry loop
GetPumpCurveState ==
    /\ pc = "get_pump_curve_state"
    /\ \E response \in AccountResponses :
         LET got == get_pump_curve_state(response)
         IN  /\ calls' = Append(calls, Call("get_account_info"))
             /\ account_info' = response
             /\ IF ~got.ok
                THEN /\ result' = Raised(got.err)
                     /\ pc' = "done"
                     /\ UNCHANGED << curve_state, min_sol_output, out >>
                ELSE IF InvalidReserveState(got.state)
                THEN /\ curve_state' = got.state
                     /\ result' = Raised("ValueError: Invalid reserve state")
                     /\ pc' = "done"
                     /\ UNCHANGED << min_sol_output, out >>
                ELSE LET min_out ==
                             MinSolOutput(token_balance, got.state, slippage)
                     IN  /\ curve_state' = got.state
                         /\ min_sol_output' = min_out
                         /\ out' = out \o << Line("Price per Token", 0),
                                             Line("Selling", token_balance),
                                             Line("Minimum SOL output", min_out) >>
                         /\ IF InRange(0, max_retries)
                            THEN pc' = "get_latest_blockhash" /\ result' = result
                            ELSE pc' = "done" /\ result' = ReturnedNone
    /\ UNCHANGED << max_retries, slippage, token_balance, attempt,
                    recent_blockhash, tx, wait, clock, sent >>
    /\ UNCHANGED << feeVars, monVars >>

GetPumpCurveStateRaises ==
    /\ pc = "get_pump_curve_state"
    /\ Escapes("get_account_info", "RPCException")

\* recent_blockhash = await client.get_latest_blockhash()
GetLatestBlockhash ==
    /\ pc = "get_latest_blockhash"
    /\ \E blockhash \in 1..MaxBlockhash :
         recent_blockhash' = blockhash
    /\ calls' = Append(calls, Call("get_latest_blockhash"))
    /\ pc' = "send_transaction"
    /\ UNCHANGED << max_retries, slippage, token_balance, curve_state, account_info,
                    min_sol_output, attempt, tx, wait, clock, sent, out,
                    result >>
    /\ UNCHANGED << feeVars, monVars >>

\* tx = await client.send_transaction(transaction, payer, opts=...)
SendTransaction ==
    /\ pc = "send_transaction"
    /\ LET ix == SellIx(token_balance, min_sol_output)
           sig == Signature(ix, recent_blockhash)
       IN  /\ tx' = sig
           /\ sent' = Append(sent, [attempt |-> attempt,
                                    recent_blockhash |-> recent_blockhash,
                                    ix |-> ix, signature |-> sig,
                                    confirmed |-> FALSE])
    /\ calls' = Append(calls, Call("send_transaction"))
    /\ out' = Append(out, Line("Transaction sent", attempt + 1))
    /\ pc' = "confirm_transaction"
    /\ UNCHANGED << max_retries, slippage, token_balance, curve_state, account_info,
                    min_sol_output, attempt, recent_blockhash, wait, clock,
                    result >>
    /\ UNCHANGED << feeVars, monVars >>

\* await client.confirm_transaction(tx.value, ...); return tx.value
ConfirmTransaction ==
    /\ pc = "confirm_transaction"
    /\ calls' = Append(calls, Call("confirm_transaction"))
    /\ sent' = [sent EXCEPT ![Len(sent)].confirmed = TRUE]
    /\ out' = Append(out, Line("Transaction confirmed", attempt + 1))
    /\ result' = ReturnedTx(tx)
    /\ pc' = "done"
    /\ UNCHANGED << max_retries, slippage, token_balance, curve_state, account_info,
                    min_sol_output, attempt, recent_blockhash, tx, wait,
                    clock >>
    /\ UNCHANGED << feeVars, monVars >>

\* the for statement takes the next value of range(max_retries), or the loop
\* ends and sell_token returns None
LoopAdvance ==
    IF InRange(attempt + 1, max_retries)
    THEN /\ attempt' = attempt + 1
         /\ pc' = "get_latest_blockhash"
         /\ result' = result
    ELSE /\ attempt' = attempt
         /\ pc' = "done"
         /\ result' = ReturnedNone

\* except Exception as e: the handler shared by the three awaits of an attempt
ExceptHandler(op) ==
    /\ IF RetryRemains(attempt, max_retries)
       THEN /\ wait' = wait_time(attempt)
            /\ calls' = calls \o << Call(op), SleepCall(wait_time(attempt)) >>
            /\ out' = out \o << Line("Attempt failed", attempt + 1),
                                Line("Retrying in", wait_time(attempt)) >>
            /\ pc' = "sleep"
            /\ UNCHANGED << attempt, result >>
       ELSE /\ wait' = wait
            /\ calls' = Append(calls, Call(op))
            /\ out' = out \o << Line("Attempt failed", attempt + 1),
                                Line("Max retries reached.", 0) >>
            /\ LoopAdvance
    /\ UNCHANGED << max_retries, slippage, token_balance, curve_state, account_info,
                    min_sol_output, recent_blockhash, tx, clock, sent >>
    /\ UNCHANGED << feeVars, monVars >>

GetLatestBlockhashRaises ==
    /\ pc = "get_latest_blockhash"
    /\ ExceptHandler("get_latest_blockhash")

SendTransactionRaises ==
    /\ pc = "send_transaction"
    /\ ExceptHandler("send_transaction")

ConfirmTransactionRaises_escapes ==
    /\ pc = "confirm_transaction"
    /\ Escapes("confirm_transaction", "RPCException")

ConfirmTransactionRaises ==
    /\ pc = "confirm_transaction"
    /\ ExceptHandler("confirm_transaction")

\* await asyncio.sleep(wait_time) returns; the loop takes the next attempt
Sleep ==
    /\ pc = "sleep"
    /\ clock' = clock + wait
    /\ LoopAdvance
    /\ UNCHANGED << max_retries, slippage, token_balance, curve_state, account_info,
                    min_sol_output, recent_blockhash, tx, wait, calls, sent,
                    out >>
    /\ UNCHANGED << feeVars, monVars >>

----------------------------------------------------------------------------
(* src/src/core/priority_fee/manager.py: PriorityFeeManager *)

\* an Optional[int]
NoFee == [some |-> FALSE, v |-> 0]
Fee(v) == [some |-> TRUE, v |-> v]

\* what the request behind the dynamic estimate came to: a fee, no estimate,
\* or a failure of the request
NoEstimate == [kind |-> "none", v |-> 0]
EstimateFee(v) == [kind |-> "fee", v |-> v]
EstimateAbsent == [kind |-> "absent", v |-> 0]
EstimateFailure == [kind |-> "failure", v |-> 0]

EstimatorOutcomes ==
    { EstimateFee(v) : v \in {0, 5, 1500, 3000} }
        \cup { EstimateAbsent, EstimateFailure }

\* what an awaited plugin call hands to the manager: a value, or an exception
PluginReturns(fee) == [raised |-> FALSE, fee |-> fee]
PluginRaises == [raised |-> TRUE, fee |-> NoFee]

\* DynamicPriorityFee.get_priority_fee (core/priority_fee/dynamic_fee.py):
\* the estimate, or None when there is none or the request failed
DynamicPriorityFee_get_priority_fee(outcome) ==
    IF outcome.kind = "fee" THEN PluginReturns(Fee(outcome.v))
    ELSE PluginReturns(NoFee)

\* FixedPriorityFee.get_priority_fee (core/priority_fee/fixed_fee.py): the
\* value the plugin was constructed with
FixedPriorityFee_get_priority_fee(fixed_fee) == Fee(fixed_fee)

\* if self.enable_dynamic_fee: the estimator is asked
ConsultsEstimator(cfg) == cfg.enable_dynamic_fee

\* the fixed fee taken first, the estimate ignored when fixed is enabled
_get_base_fee_fixed_first(cfg, dynamic_fee) ==
    IF cfg.enable_fixed_fee
    THEN FixedPriorityFee_get_priority_fee(cfg.fixed_fee)
    ELSE IF cfg.enable_dynamic_fee /\ dynamic_fee.some THEN dynamic_fee
    ELSE NoFee

\* no fall back to the fixed fee once the estimator was asked
_get_base_fee_no_fallback(cfg, dynamic_fee) ==
    IF cfg.enable_dynamic_fee THEN dynamic_fee
    ELSE IF cfg.enable_fixed_fee
    THEN FixedPriorityFee_get_priority_fee(cfg.fixed_fee)
    ELSE NoFee

\* _get_base_fee, with dynamic_fee the value the estimator call returned
\* (NoFee when it was not made)
_get_base_fee(cfg, dynamic_fee) ==
    IF cfg.enable_dynamic_fee /\ dynamic_fee.some THEN dynamic_fee
    ELSE IF cfg.enable_fixed_fee
    THEN FixedPriorityFee_get_priority_fee(cfg.fixed_fee)
    ELSE NoFee

\* int(x) of Python for the quotient n / d, d > 0: truncation towards zero
PyInt(n, d) == IF n >= 0 THEN n \div d ELSE -((-n) \div d)

\* int(base_fee * (1 + self.extra_fee)), extra_fee being the ratio num / den
MarkedUp(base, extra) ==
    PyInt(base * (extra.den + extra.num), extra.den)

\* the hard cap not enforced
final_fee_uncapped(base, cfg) == MarkedUp(base, cfg.extra_fee)

\* final_fee of calculate_priority_fee: the markup, then the hard cap
final_fee(base, cfg) ==
    IF MarkedUp(base, cfg.extra_fee) > cfg.hard_cap
    THEN cfg.hard_cap
    ELSE MarkedUp(base, cfg.extra_fee)

ExceedsHardCap(base, cfg) == MarkedUp(base, cfg.extra_fee) > cfg.hard_cap

FeeRunning == [kind |-> "running", fee |-> NoFee]
FeeReturned(fee) == [kind |-> "return", fee |-> fee]
FeeRaised == [kind |-> "raise", fee |-> NoFee]

Ratio(n, d) == [num |-> n, den |-> d]

Configs ==
    [enable_dynamic_fee : BOOLEAN,
     enable_fixed_fee : BOOLEAN,
     fixed_fee : {0, 7, 1000},
     extra_fee : {Ratio(0, 1), Ratio(1, 10), Ratio(1, 2)},
     hard_cap : {0, 1000, 2000}]

NoConfig ==
    [enable_dynamic_fee |-> FALSE, enable_fixed_fee |-> FALSE,
     fixed_fee |-> 0, extra_fee |-> Ratio(0, 1), hard_cap |-> 0]

\* no calculate_priority_fee call is under way
FeeIdle ==
    /\ fee_pc = "idle"
    /\ config = NoConfig
    /\ estimator_calls = 0
    /\ estimate = NoEstimate
    /\ base_fee = NoFee
    /\ warnings = 0
    /\ fee_result = FeeRunning

\* PriorityFeeManager.__init__, and the call of calculate_priority_fee
FeeInit ==
    /\ fee_pc = "calculate_priority_fee"
    /\ config \in Configs
    /\ estimator_calls = 0
    /\ estimate = NoEstimate
    /\ base_fee = NoFee
    /\ warnings = 0
    /\ fee_result = FeeRunning

\* the rest of calculate_priority_fee once _get_base_fee has returned base
FinishFee(base) ==
    /\ base_fee' = base
    /\ IF ~base.some
       THEN /\ fee_result' = FeeReturned(NoFee)
            /\ warnings' = warnings
       ELSE /\ fee_result' = FeeReturned(Fee(final_fee(base.v, config)))
            /\ warnings' = IF ExceedsHardCap(base.v, config)
                           THEN warnings + 1 ELSE warnings
    /\ fee_pc' = "done"

\* calculate_priority_fee with dynamic estimation disabled: no await on the
\* estimator, the fee is settled at once
CalculateWithoutEstimator ==
    /\ fee_pc = "calculate_priority_fee"
    /\ ~ConsultsEstimator(config)
    /\ FinishFee(_get_base_fee(config, NoFee))
    /\ UNCHANGED << config, estimator_calls, estimate >>
    /\ UNCHANGED << sellVars, monVars >>

\* calculate_priority_fee with dynamic estimation enabled, up to
\* await self.dynamic_fee_plugin.get_priority_fee(accounts)
AskEstimator ==
    /\ fee_pc = "calculate_priority_fee"
    /\ ConsultsEstimator(config)
    /\ estimator_calls' = estimator_calls + 1
    /\ fee_pc' = "get_priority_fee"
    /\ UNCHANGED << config, estimate, base_fee, warnings, fee_result >>
    /\ UNCHANGED << sellVars, monVars >>

\* the estimator call is over; _get_base_fee and calculate_priority_fee run
\* to their end (an exception of the awaited call is not caught here)
EstimatorAnswers ==
    /\ fee_pc = "get_priority_fee"
    /\ \E outcome \in EstimatorOutcomes :
         LET got == DynamicPriorityFee_get_priority_fee(outcome)
         IN  /\ estimate' = outcome
             /\ IF got.raised
                THEN /\ fee_result' = FeeRaised
                     /\ fee_pc' = "done"
                     /\ UNCHANGED << base_fee, warnings >>
                ELSE FinishFee(_get_base_fee(config, got.fee))
    /\ UNCHANGED << config, estimator_calls >>
    /\ UNCHANGED << sellVars, monVars >>

----------------------------------------------------------------------------
(* listen_geyser.py: text, addresses and decode_create_instruction *)

\* struct.pack("<Q", 8576854823835016728)
PUMP_CREATE_PREFIX == << 24, 30, 200, 40, 5, 28, 7, 119 >>

\* a continuation byte of UTF-8
IsCont(b) == b \in 128..191

\* the length of the well-formed UTF-8 sequence that opens bytes, 0 if none
\* does (overlong forms, surrogates and values past U+10FFFF are ill-formed)
Utf8Len(bytes) ==
    LET n == Len(bytes)
        b1 == bytes[1]
    IN  IF b1 <= 127 THEN 1
        ELSE IF b1 \in 194..223 /\ n >= 2 /\ IsCont(bytes[2]) THEN 2
        ELSE IF /\ b1 \in 224..239
                /\ n >= 3
                /\ bytes[2] \in (IF b1 = 224 THEN 160..191
                                 ELSE IF b1 = 237 THEN 128..159
                                 ELSE 128..191)
                /\ IsCont(bytes[3]) THEN 3
        ELSE IF /\ b1 \in 240..244
                /\ n >= 4
                /\ bytes[2] \in (IF b1 = 240 THEN 144..191
                                 ELSE IF b1 = 244 THEN 128..143
                                 ELSE 128..191)
                /\ IsCont(bytes[3])
                /\ IsCont(bytes[4]) THEN 4
        ELSE 0

\* the code point of the k-byte sequence that opens bytes
CodePoint(bytes, k) ==
    IF k = 1 THEN bytes[1]
    ELSE IF k = 2 THEN (bytes[1] % 32) * 64 + (bytes[2] % 64)
    ELSE IF k = 3
    THEN (bytes[1] % 16) * 4096 + (bytes[2] % 64) * 64 + (bytes[3] % 64)
    ELSE (bytes[1] % 8) * 262144 + (bytes[2] % 64) * 4096
            + (bytes[3] % 64) * 64 + (bytes[4] % 64)

\* bytes.decode(): the code points, or UnicodeDecodeError
RECURSIVE Utf8Decode(_)
Utf8Decode(bytes) ==
    IF bytes = << >> THEN [ok |-> TRUE, chars |-> << >>]
    ELSE LET k == Utf8Len(bytes)
         IN  IF k = 0 THEN [ok |-> FALSE, chars |-> << >>]
             ELSE LET rest == Utf8Decode(SubSeq(bytes, k + 1, Len(bytes)))
                  IN  IF rest.ok
                      THEN [ok |-> TRUE,
                            chars |-> << CodePoint(bytes, k) >> \o rest.chars]
                      ELSE rest

B58Alphabet ==
    << "1", "2", "3", "4", "5", "6", "7", "8", "9",
       "A", "B", "C", "D", "E", "F", "G", "H", "J", "K", "L", "M", "N", "P",
       "Q", "R", "S", "T", "U", "V", "W", "X", "Y", "Z",
       "a", "b", "c", "d", "e", "f", "g", "h", "i", "j", "k", "m", "n", "o",
       "p", "q", "r", "s", "t", "u", "v", "w", "x", "y", "z" >>

\* long division of a big-endian base-256 number by m, the halves of the
\* number one after the other; carry is the remainder brought in
RECURSIVE DivMod(_, _, _)
DivMod(digits, m, carry) ==
    IF digits = << >> THEN [q |-> << >>, r |-> carry]
    ELSE IF Len(digits) = 1
    THEN [q |-> << (carry * 256 + digits[1]) \div m >>,
          r |-> (carry * 256 + digits[1]) % m]
    ELSE LET h == Len(digits) \div 2
             left == DivMod(SubSeq(digits, 1, h), m, carry)
             right == DivMod(SubSeq(digits, h + 1, Len(digits)), m, left.r)
         IN  [q |-> left.q \o right.q, r |-> right.r]

RECURSIVE LeadingZeros(_)
LeadingZeros(bytes) ==
    IF bytes = << >> \/ Head(bytes) # 0 THEN 0
    ELSE 1 + LeadingZeros(Tail(bytes))

WithoutLeadingZeros(digits) ==
    SubSeq(digits, LeadingZeros(digits) + 1, Len(digits))

\* the base-58 digits of a big-endian base-256 number, most significant
\* first and three at a time (58^3 = 195112)
RECURSIVE B58Number(_)
B58Number(digits) ==
    LET d == WithoutLeadingZeros(digits)
    IN  IF d = << >> THEN << >>
        ELSE LET dm == DivMod(d, 195112, 0)
                 high == B58Number(dm.q)
                 low == << dm.r \div 3364, (dm.r \div 58) % 58, dm.r % 58 >>
             IN  IF high = << >> THEN WithoutLeadingZeros(low)
                 ELSE high \o low

\* base58.b58encode(bytes).decode(): one "1" per leading zero byte, then the
\* number in base 58
b58encode(bytes) ==
    LET number == B58Number(bytes)
    IN  [i \in 1..LeadingZeros(bytes) |-> "1"]
            \o [i \in 1..Len(number) |-> B58Alphabet[number[i] + 1]]

\* the sentinel of get_account_key
NotAvailable == << "N", "/", "A" >>

DecodeFailed(e) == [ok |-> FALSE, err |-> e]

\* get_account_key(index) of decode_create_instruction
get_account_key(index, keys, accounts) ==
    IF index >= Len(accounts)
    THEN [ok |-> TRUE, err |-> "", value |-> NotAvailable]
    ELSE LET account_index == accounts[index + 1]
         IN  IF account_index >= Len(keys)
             THEN [ok |-> FALSE, err |-> "IndexError", value |-> << >>]
             ELSE [ok |-> TRUE, err |-> "",
                   value |-> b58encode(keys[account_index + 1])]

\* read_string() of decode_create_instruction at offset: struct.unpack_from
\* needs 4 bytes at offset, the slice is clipped to the buffer, the offset
\* moves by the declared length
read_string(ix_data, offset) ==
    IF Len(ix_data) - offset < 4
    THEN [ok |-> FALSE, err |-> "struct.error", value |-> << >>,
          offset |-> offset]
    ELSE LET length == LittleEndian(SubSeq(ix_data, offset + 1, offset + 4))
             text == Utf8Decode(Slice(ix_data, offset + 4, offset + 4 + length))
         IN  IF ~text.ok
             THEN [ok |-> FALSE, err |-> "UnicodeDecodeError",
                   value |-> << >>, offset |-> offset + 4]
             ELSE [ok |-> TRUE, err |-> "", value |-> text.chars,
                   offset |-> offset + 4 + length]

\* read_pubkey() of decode_create_instruction at offset
read_pubkey(ix_data, offset) ==
    [ok |-> TRUE, err |-> "",
     value |-> b58encode(Slice(ix_data, offset, offset + 32)),
     offset |-> offset + 32]

AccountSlots ==
    << "mint", "metadata", "bonding_curve", "associated_bonding_curve",
       "token_program", "system_program", "rent", "user" >>

\* decode_create_instruction: the token_info, or the first exception raised
decode_create_instruction(ix_data, keys, accounts) ==
    LET name == read_string(ix_data, 8)
        symbol == read_string(ix_data, name.offset)
        uri == read_string(ix_data, symbol.offset)
        creator == read_pubkey(ix_data, uri.offset)
        key(i) == get_account_key(i, keys, accounts)
        bad == { i \in 0..7 : ~key(i).ok }
    IN  IF ~name.ok THEN DecodeFailed(name.err)
        ELSE IF ~symbol.ok THEN DecodeFailed(symbol.err)
        ELSE IF ~uri.ok THEN DecodeFailed(uri.err)
        ELSE IF bad # {} THEN DecodeFailed("IndexError")
        ELSE [ok |-> TRUE, err |-> "",
              name |-> name.value, symbol |-> symbol.value,
              uri |-> uri.value, creator |-> creator.value,
              mint |-> key(0).value, metadata |-> key(1).value,
              bonding_curve |-> key(2).value,
              associated_bonding_curve |-> key(3).value,
              token_program |-> key(4).value,
              system_program |-> key(5).value,
              rent |-> key(6).value, user |-> key(7).value]

StartsWithCreatePrefix_any(data) == TRUE

\* ix.data.startswith(PUMP_CREATE_PREFIX)
StartsWithCreatePrefix(data) == Slice(data, 0, 8) = PUMP_CREATE_PREFIX

----------------------------------------------------------------------------
(* listen_geyser.py: the feed and monitor_pump *)

MaxFeed == 2

\* struct.pack("<I", n) for the small n of the model
PackU32(n) == << n % 256, (n \div 256) % 256, 0, 0 >>

\* a length-prefixed field
Prefixed(bytes) == PackU32(Len(bytes)) \o bytes

\* 32-byte addresses and 64-byte signatures of the feed
KeyBytes(n) == [i \in 1..32 |-> (n * i + 7) % 256]
SigBytes(n) == [i \in 1..64 |-> (n * i + 3) % 256]

\* the account keys of a transaction
Keys(n) == [i \in 1..n |-> KeyBytes(i)]

\* the payload of a well-formed create instruction: "AB", "C", "u:" + U+00E9
GoodCreate ==
    PUMP_CREATE_PREFIX \o Prefixed(<< 65, 66 >>) \o Prefixed(<< 67 >>)
        \o Prefixed(<< 117, 58, 195, 169 >>) \o KeyBytes(9)

\* payloads that open with the create prefix and are malformed: cut inside
\* the second length header; a name that is no UTF-8; a uri whose declared
\* length runs past the end of the buffer
ShortCreate == SubSeq(GoodCreate, 1, 16)
BadTextCreate ==
    PUMP_CREATE_PREFIX \o Prefixed(<< 65, 255 >>) \o Prefixed(<< 67 >>)
        \o Prefixed(<< 117 >>) \o KeyBytes(9)
OverlongCreate ==
    PUMP_CREATE_PREFIX \o Prefixed(<< 65 >>) \o Prefixed(<< 67 >>)
        \o PackU32(40) \o << 117, 58 >>

\* a payload of another instruction of the program
OtherData == SELL_DISCRIMINATOR \o PackU64(5) \o PackU64(1)

Ix(data, accounts) == [data |-> data, accounts |-> accounts]

AllSlots == << 0, 1, 2, 3, 4, 5, 6, 7 >>

TxUpdate(sig, keys, instructions) ==
    [has_transaction |-> TRUE, has_message |-> TRUE, signature |-> SigBytes(sig),
     account_keys |-> keys, instructions |-> instructions]

NoUpdate ==
    [has_transaction |-> FALSE, has_message |-> FALSE, signature |-> << >>,
     account_keys |-> << >>, instructions |-> << >>]

\* the updates the feed may deliver
Updates ==
    { NoUpdate,
      [NoUpdate EXCEPT !.has_transaction = TRUE, !.signature = SigBytes(1)],
      TxUpdate(2, Keys(8), << Ix(OtherData, AllSlots), Ix(GoodCreate, AllSlots) >>),
      TxUpdate(3, Keys(8), << Ix(GoodCreate, AllSlots),
                              Ix(GoodCreate, << 7, 6, 5 >>) >>),
      TxUpdate(4, Keys(8), << Ix(ShortCreate, AllSlots),
                              Ix(GoodCreate, AllSlots) >>),
      TxUpdate(5, Keys(8), << Ix(BadTextCreate, AllSlots) >>),
      TxUpdate(6, Keys(8), << Ix(OverlongCreate, AllSlots),
                              Ix(OtherData, AllSlots) >>),
      TxUpdate(7, Keys(4), << Ix(GoodCreate, AllSlots) >>) }

RECURSIVE SeqsUpTo(_, _)
SeqsUpTo(S, n) ==
    IF n = 0 THEN { << >> }
    ELSE LET shorter == SeqsUpTo(S, n - 1)
         IN  shorter \cup { Append(q, x) : q \in shorter, x \in S }

MonRunning == [kind |-> "running", exc |-> ""]
MonReturned == [kind |-> "return", exc |-> ""]
MonRaised(e) == [kind |-> "raise", exc |-> e]

\* no monitor_pump is running
MonIdle ==
    /\ mon_pc = "idle"
    /\ feed = << >>
    /\ update = NoUpdate
    /\ ix_i = 0
    /\ printed = << >>
    /\ cancel_requested = FALSE
    /\ mon_result = MonRunning

\* monitor_pump is subscribed and waits for the first update
MonInit ==
    /\ mon_pc = "await_update"
    /\ feed \in SeqsUpTo(Updates, MaxFeed)
    /\ update = NoUpdate
    /\ ix_i = 0
    /\ printed = << >>
    /\ cancel_requested = FALSE
    /\ mon_result = MonRunning

AfterInstruction_skips_one(i) ==
    IF i + 1 < Len(update.instructions)
    THEN ix_i' = i + 2 /\ mon_pc' = "instruction"
    ELSE ix_i' = 0 /\ mon_pc' = "await_update"

\* the for statement over msg.instructions moves past instruction i
AfterInstruction(i) ==
    IF i < Len(update.instructions)
    THEN ix_i' = i + 1 /\ mon_pc' = "instruction"
    ELSE ix_i' = 0 /\ mon_pc' = "await_update"

NextUpdate_uncancellable ==
    /\ mon_pc = "await_update"
    /\ feed # << >>
    /\ update' = Head(feed)
    /\ feed' = Tail(feed)
    /\ IF /\ Head(feed).has_transaction
          /\ Head(feed).has_message
          /\ Head(feed).instructions # << >>
       THEN ix_i' = 1 /\ mon_pc' = "instruction"
       ELSE ix_i' = 0 /\ mon_pc' = "await_update"
    /\ UNCHANGED << printed, cancel_requested, mon_result >>
    /\ UNCHANGED << sellVars, feeVars >>

\* async for update in stub.Subscribe(...): the next update arrives; the
\* two continue statements and the entry into the instruction loop. A
\* cancelled task is not resumed with an update (see Cancelled).
NextUpdate ==
    /\ mon_pc = "await_update"
    /\ ~cancel_requested
    /\ feed # << >>
    /\ update' = Head(feed)
    /\ feed' = Tail(feed)
    /\ IF /\ Head(feed).has_transaction
          /\ Head(feed).has_message
          /\ Head(feed).instructions # << >>
       THEN ix_i' = 1 /\ mon_pc' = "instruction"
       ELSE ix_i' = 0 /\ mon_pc' = "await_update"
    /\ UNCHANGED << printed, cancel_requested, mon_result >>
    /\ UNCHANGED << sellVars, feeVars >>

\* the stream ends: the async for is over and monitor_pump returns
StreamEnds ==
    /\ mon_pc = "await_update"
    /\ ~cancel_requested
    /\ feed = << >>
    /\ mon_pc' = "done"
    /\ mon_result' = MonReturned
    /\ UNCHANGED << feed, update, ix_i, printed, cancel_requested >>
    /\ UNCHANGED << sellVars, feeVars >>

\* the stream fails while monitor_pump waits: the error leaves monitor_pump
StreamRaises ==
    /\ mon_pc = "await_update"
    /\ ~cancel_requested
    /\ mon_pc' = "done"
    /\ mon_result' = MonRaised("AioRpcError")
    /\ UNCHANGED << feed, update, ix_i, printed, cancel_requested >>
    /\ UNCHANGED << sellVars, feeVars >>

\* the stop signal: the task that runs monitor_pump is cancelled from
\* outside, while it waits for an update or while it handles one
Cancel ==
    /\ mon_pc \in {"await_update", "instruction"}
    /\ ~cancel_requested
    /\ cancel_requested' = TRUE
    /\ UNCHANGED << mon_pc, feed, update, ix_i, printed, mon_result >>
    /\ UNCHANGED << sellVars, feeVars >>

\* the await of the async for is where a cancelled task is resumed: with
\* CancelledError, which nothing in monitor_pump catches
Cancelled ==
    /\ mon_pc = "await_update"
    /\ cancel_requested
    /\ mon_pc' = "done"
    /\ mon_result' = MonRaised("CancelledError")
    /\ UNCHANGED << feed, update, ix_i, printed, cancel_requested >>
    /\ UNCHANGED << sellVars, feeVars >>

\* if not ix.data.startswith(PUMP_CREATE_PREFIX): continue
SkipInstruction ==
    /\ mon_pc = "instruction"
    /\ ~StartsWithCreatePrefix(update.instructions[ix_i].data)
    /\ AfterInstruction(ix_i)
    /\ UNCHANGED << feed, update, printed, cancel_requested, mon_result >>
    /\ UNCHANGED << sellVars, feeVars >>

\* a matching instruction: decode_create_instruction, then print_token_info
\* with the signature; an exception of the decode is caught nowhere and
\* leaves monitor_pump
DecodeInstruction ==
    /\ mon_pc = "instruction"
    /\ StartsWithCreatePrefix(update.instructions[ix_i].data)
    /\ LET ix == update.instructions[ix_i]
           info == decode_create_instruction(ix.data, update.account_keys,
                                             ix.accounts)
       IN  IF info.ok
           THEN /\ printed' = Append(printed,
                                     [info |-> info,
                                      signature |-> b58encode(update.signature)])
                /\ AfterInstruction(ix_i)
                /\ mon_result' = mon_result
           ELSE /\ mon_result' = MonRaised(info.err)
                /\ mon_pc' = "done"
                /\ UNCHANGED << ix_i, printed >>
    /\ UNCHANGED << feed, update, cancel_requested >>
    /\ UNCHANGED << sellVars, feeVars >>

----------------------------------------------------------------------------
(* The specifications: one per program *)

Init == SellInit /\ FeeIdle /\ MonIdle

Next ==
    \/ GetTokenBalance
    \/ GetTokenBalanceRaises
    \/ GetPumpCurveState
    \/ GetPumpCurveStateRaises
    \/ GetLatestBlockhash
    \/ GetLatestBlockhashRaises
    \/ SendTransaction
    \/ SendTransactionRaises
    \/ ConfirmTransaction
    \/ ConfirmTransactionRaises
    \/ Sleep

Spec == Init /\ [][Next]_vars

\* no sell_token call is under way
SellIdle ==
    /\ pc = "idle"
    /\ max_retries = 0
    /\ slippage = 0
    /\ token_balance = 0
    /\ curve_state = NoState
    /\ account_info = NoAccount
    /\ min_sol_output = 0
    /\ attempt = 0
    /\ recent_blockhash = 0
    /\ tx = << >>
    /\ wait = 0
    /\ clock = 0
    /\ calls = << >>
    /\ sent = << >>
    /\ out = << >>
    /\ result = NotReturned

FeeSpecInit == SellIdle /\ FeeInit /\ MonIdle

FeeNext ==
    \/ CalculateWithoutEstimator
    \/ AskEstimator
    \/ EstimatorAnswers

FeeSpec == FeeSpecInit /\ [][FeeNext]_vars

MonitorInit == SellIdle /\ FeeIdle /\ MonInit

MonitorNext ==
    \/ NextUpdate
    \/ StreamEnds
    \/ StreamRaises
    \/ Cancel
    \/ Cancelled
    \/ SkipInstruction
    \/ DecodeInstruction

MonitorSpec == MonitorInit /\ [][MonitorNext]_vars

----------------------------------------------------------------------------
(* Properties of sell_token, checked under Spec *)

\* the base of the backoff: wait_time = 1 * 2 ** attempt
BaseBackoffSeconds == 1

CallsOf(ops) == SelectSeq(calls, LAMBDA c : c.op \in ops)

\* the attempts started so far: each one opens with the block-reference fetch
Attempts == Len(CallsOf({"get_latest_blockhash"}))

AttemptOps == {"get_latest_blockhash", "send_transaction", "confirm_transaction"}

\* the attempts and the sleeps, in the order they happened
Marks == CallsOf({"get_latest_blockhash", "sleep"})

\* the call is over, the loop ran, and no attempt of it was confirmed
Exhausted ==
    /\ pc = "done"
    /\ Attempts >= 1
    /\ result.kind # "return_tx"

\* C1: when every attempt of sell_token fails, the loop makes exactly
\* max_retries attempts, sleeps exactly once between consecutive attempts,
\* the wait after failed attempt n (0-indexed) being base * 2^n, does not
\* sleep after the last failed attempt, and ends in the terminal failure
\* ("Max retries reached.", the call returns without a transaction).
C1_ExhaustedRetries ==
    Exhausted =>
        /\ Attempts = max_retries
        /\ Len(Marks) = 2 * max_retries - 1
        /\ \A i \in 1..Len(Marks) :
              IF i % 2 = 1
              THEN /\ Marks[i].op = "get_latest_blockhash"
                   /\ Marks[i].attempt = (i - 1) \div 2
              ELSE /\ Marks[i].op = "sleep"
                   /\ Marks[i].attempt = (i - 2) \div 2
                   /\ Marks[i].secs
                        = BaseBackoffSeconds * 2 ^ Marks[i].attempt
        /\ calls[Len(calls)].op \in AttemptOps
        /\ calls[Len(calls)].attempt = max_retries - 1
        /\ clock = BaseBackoffSeconds * (2 ^ (max_retries - 1) - 1)
        /\ out[Len(out)].msg = "Max retries reached."
        /\ result = ReturnedNone

C1_Witness ==
    /\ Exhausted
    /\ max_retries = 3
    /\ Attempts = 3
    /\ [i \in 1..Len(CallsOf({"sleep"})) |-> CallsOf({"sleep"})[i].secs]
         = << 1, 2 >>

\* C2: when attempt k of sell_token is submitted and confirmed after k - 1
\* failed attempts, the loop has made exactly k <= max_retries attempts, the
\* call returns the identifier of the transaction submitted in attempt k,
\* and the confirmation is the last call of the run: no sleep, block-reference
\* fetch, submit or confirm follows it.
C2_SuccessAtAttemptK ==
    result.kind = "return_tx" =>
        /\ pc = "done"
        /\ Attempts <= max_retries
        /\ attempt = Attempts - 1
        /\ sent # << >>
        /\ sent[Len(sent)].attempt = Attempts - 1
        /\ sent[Len(sent)].confirmed
        /\ result.tx = sent[Len(sent)].signature
        /\ \A i \in 1..(Len(sent) - 1) : ~sent[i].confirmed
        /\ calls[Len(calls)].op = "confirm_transaction"
        /\ calls[Len(calls)].attempt = Attempts - 1
        /\ Len(CallsOf({"confirm_transaction"})) <= Attempts
        /\ Len(CallsOf({"sleep"})) = Attempts - 1
        /\ ~ENABLED Next

C2_Witness ==
    /\ result.kind = "return_tx"
    /\ max_retries = 3
    /\ Attempts = 2
    /\ Len(CallsOf({"sleep"})) = 1
    /\ result.tx = sent[Len(sent)].signature

\* the balance check answered, and the answer was a balance of 0
ZeroBalanceFetched ==
    /\ calls # << >>
    /\ result.kind # "raise"
    /\ token_balance = 0

\* C3: when the fetched token balance is 0, sell_token prints "No tokens to
\* sell." and returns: the balance check is the only call it ever makes (no
\* curve fetch, block-reference fetch, submit or confirm) and it never sleeps.
C3_ZeroBalanceNoOp ==
    ZeroBalanceFetched =>
        /\ pc = "done"
        /\ result = ReturnedNone
        /\ Len(calls) = 1
        /\ calls[1].op = "get_token_account_balance"
        /\ sent = << >>
        /\ clock = 0
        /\ out[Len(out)].msg = "No tokens to sell."
        /\ ~ENABLED Next

C3_Witness ==
    /\ ZeroBalanceFetched
    /\ pc = "done"
    /\ out[Len(out)].msg = "No tokens to sell."

\* C8: when the retries of a sell_token call are exhausted, the outcome
\* returned to the caller carries the failure cause, so it differs from the
\* outcome of the zero-balance no-op (ReturnedNone) and from success.
C8_ExhaustionReported ==
    Exhausted =>
        /\ result # ReturnedNone
        /\ result.kind # "return_tx"
        /\ result.exc # ""

\* C9: sell_token honours a deadline d: no attempt call (block-reference
\* fetch, submit, confirm) is made after more than d seconds have passed, and
\* a call that ran past d without a confirmation ends in TimeoutExceeded.
C9_DeadlineAbortsRetries ==
    \A d \in 1..MaxDeadline :
        /\ \A i \in 1..Len(calls) :
              calls[i].op \in AttemptOps => calls[i].at <= d
        /\ (pc = "done" /\ clock > d /\ result.kind # "return_tx")
              => result = Raised("TimeoutExceeded")

\* C10: sell_token submits no transaction against a curve whose fetched
\* state has complete = true.
C10_NoSubmitOnCompleteCurve ==
    curve_state.complete => sent = << >>

\* the account of the bonding curve was answered (the call did not fail in
\* transit)
CurveAnswered ==
    /\ CallsOf({"get_account_info"}) # << >>
    /\ result # Raised("RPCException")

\* the answer was parsed into a curve state
CurveParsed == CurveAnswered /\ get_pump_curve_state(account_info).ok

\* C13: the price calculation fails with "Invalid reserve state" for every
\* curve state whose virtual token reserves or virtual SOL reserves are
\* zero, and yields a price for every state in which both are positive;
\* in sell_token the failure ends the call before any attempt is started
\* and before anything is submitted.
C13_InvalidReservesAbort ==
    CurveParsed =>
        IF \/ curve_state.virtual_token_reserves = 0
           \/ curve_state.virtual_sol_reserves = 0
        THEN /\ pc = "done"
             /\ result = Raised("ValueError: Invalid reserve state")
             /\ Attempts = 0
             /\ sent = << >>
             /\ CallsOf(AttemptOps \cup {"sleep"}) = << >>
             /\ \A k \in 1..Len(out) : out[k].msg # "Price per Token"
        ELSE /\ result.kind # "raise"
             /\ \E k \in 1..Len(out) : out[k].msg = "Price per Token"

C13_Witness ==
    /\ CurveParsed
    /\ curve_state.virtual_token_reserves = 2
    /\ curve_state.virtual_sol_reserves = 0
    /\ token_balance = 2
    /\ max_retries = 4
    /\ result = Raised("ValueError: Invalid reserve state")

\* the bytes from..to (1-based) of the answered account, as an unsigned
\* little-endian integer
AccountField(from, to) == LittleEndian(SubSeq(account_info.data, from, to))

AccountEmpty == ~account_info.has_value \/ Len(account_info.data) = 0

AccountTagged == Slice(account_info.data, 0, 8) = EXPECTED_DISCRIMINATOR

\* what get_pump_curve_state says of an absent, empty or wrongly tagged
\* account
CurveStateRejections ==
    /\ AccountEmpty =>
          result = Raised("ValueError: Invalid curve state: No data")
    /\ (~AccountEmpty /\ ~AccountTagged) =>
          result = Raised("ValueError: Invalid curve state discriminator")

\* the state read from the bytes after the discriminator
CurveStateFromBytes ==
    /\ curve_state.virtual_token_reserves = AccountField(9, 16)
    /\ curve_state.virtual_sol_reserves = AccountField(17, 24)
    /\ curve_state.real_token_reserves = AccountField(25, 32)
    /\ curve_state.real_sol_reserves = AccountField(33, 40)
    /\ curve_state.token_total_supply = AccountField(41, 48)
    /\ curve_state.complete = (account_info.data[49] # 0)
    /\ result.exc \notin {"ValueError: Invalid curve state: No data",
                          "ValueError: Invalid curve state discriminator",
                          "StreamError"}

\* C14 as stated: get_pump_curve_state fails with "No data" for an absent
\* or empty account, with "discriminator" for a non-empty account whose
\* first 8 bytes differ, and otherwise returns a state whose five integers
\* and flag are read from the bytes after the discriminator in fixed order.
C14_CurveStateOrErrors ==
    CurveAnswered =>
        /\ CurveStateRejections
        /\ (~AccountEmpty /\ AccountTagged) =>
              /\ Len(account_info.data) >= 49
              /\ CurveStateFromBytes

\* C14, amended: the state is returned when at least 41 bytes follow the
\* discriminator; a correctly tagged account with fewer bytes fails in the
\* parse with StreamError, and no state is returned.
C14_CurveStateOrErrorsAmended ==
    CurveAnswered =>
        /\ CurveStateRejections
        /\ (~AccountEmpty /\ AccountTagged) =>
              IF Len(account_info.data) >= 49
              THEN CurveStateFromBytes
              ELSE result = Raised("StreamError") /\ curve_state = NoState

C14_Witness ==
    /\ CurveAnswered
    /\ account_info = Account(CurveBytes(2, 300, TRUE))
    /\ curve_state = [virtual_token_reserves |-> 2,
                      virtual_sol_reserves |-> 300,
                      real_token_reserves |-> 3,
                      real_sol_reserves |-> 301,
                      token_total_supply |-> 1000,
                      complete |-> TRUE]
    /\ result.kind # "raise"

LoopOps == AttemptOps \cup {"sleep"}

\* C17: inside every attempt the awaited calls come strictly in the order
\* block-reference fetch, submit, confirm, each attempt opening with its own
\* block-reference fetch; attempts do not overlap; attempt n + 1 starts only
\* after attempt n has failed (nothing it submitted is confirmed) and the
\* sleep that followed the failure is over.
C17_AttemptOrder ==
    /\ \A i \in 1..Len(calls) :
         LET c == calls[i]
         IN  /\ c.op = "send_transaction" =>
                   /\ calls[i - 1].op = "get_latest_blockhash"
                   /\ calls[i - 1].attempt = c.attempt
             /\ c.op = "confirm_transaction" =>
                   /\ calls[i - 1].op = "send_transaction"
                   /\ calls[i - 1].attempt = c.attempt
             /\ c.op = "sleep" =>
                   /\ calls[i - 1].op \in AttemptOps
                   /\ calls[i - 1].attempt = c.attempt
             /\ (c.op = "get_latest_blockhash" /\ c.attempt = 0) =>
                   calls[i - 1].op = "get_account_info"
             /\ (c.op = "get_latest_blockhash" /\ c.attempt > 0) =>
                   /\ calls[i - 1].op = "sleep"
                   /\ calls[i - 1].attempt = c.attempt - 1
                   /\ calls[i - 1].secs >= 1
                   /\ c.at = calls[i - 1].at + calls[i - 1].secs
                   /\ \A k \in 1..Len(sent) :
                         sent[k].attempt = c.attempt - 1 => ~sent[k].confirmed
    /\ \A i, j \in 1..Len(calls) :
         (i < j /\ calls[i].op \in LoopOps /\ calls[j].op \in LoopOps)
            => calls[i].attempt <= calls[j].attempt
    /\ \A i \in 1..Attempts :
         CallsOf({"get_latest_blockhash"})[i].attempt = i - 1
    /\ pc = "sleep" => calls[Len(calls)].op = "sleep"

C17_Witness ==
    /\ result.kind = "return_tx"
    /\ [i \in 1..Len(calls) |-> calls[i].op] =
          << "get_token_account_balance", "get_account_info",
             "get_latest_blockhash", "send_transaction", "sleep",
             "get_latest_blockhash", "send_transaction",
             "confirm_transaction", "sleep",
             "get_latest_blockhash", "send_transaction",
             "confirm_transaction" >>
    /\ clock = 3

\* C19: in one sell_token call the balance and the curve state are fetched
\* once each, before the first attempt; the instruction of every submitted
\* transaction has the same payload (sell discriminator, amount = the
\* balance, minimum proceeds) and the same ordered account list; between
\* attempts only the block reference changes.
C19_InstructionFixedAcrossAttempts ==
    /\ \A i \in 1..Len(calls) :
         /\ calls[i].op = "get_token_account_balance" => i = 1
         /\ calls[i].op = "get_account_info" => i = 2
         /\ calls[i].op \in LoopOps => i > 2
    /\ \A k \in 1..Len(sent) :
         /\ sent[k].ix.data =
               SELL_DISCRIMINATOR \o PackU64(token_balance)
                   \o PackU64(min_sol_output)
         /\ sent[k].ix.accounts = SellAccounts
         /\ sent[k].ix = sent[1].ix
         /\ sent[k].signature = << sent[k].recent_blockhash >> \o sent[1].ix.data

C19_Witness ==
    /\ Len(sent) = 3
    /\ sent[1].recent_blockhash = 1
    /\ sent[2].recent_blockhash = 2
    /\ sent[3].recent_blockhash = 1
    /\ sent[1].ix = sent[3].ix
    /\ token_balance = 2
    /\ min_sol_output > 0

\* the confirmation of the transaction submitted in attempt a failed
ConfirmFailed(i) ==
    /\ calls[i].op = "confirm_transaction"
    /\ \A k \in 1..Len(sent) :
          sent[k].attempt = calls[i].attempt => ~sent[k].confirmed

\* C20: a confirmation that fails after a successful submit is a failed
\* attempt like any other: while attempts remain it is followed by the
\* backoff sleep and then by the next attempt; one call submits at most
\* max_retries transactions, one per attempt, a further one only when none
\* submitted before it was confirmed, and nothing after a confirmed one.
C20_ResubmitAfterFailedConfirm ==
    /\ Len(sent) <= max_retries
    /\ \A k \in 1..(Len(sent) - 1) :
         /\ ~sent[k].confirmed
         /\ sent[k].attempt < sent[k + 1].attempt
    /\ \A i \in 1..Len(calls) :
         (ConfirmFailed(i) /\ calls[i].attempt < max_retries - 1) =>
            /\ i < Len(calls)
            /\ calls[i + 1].op = "sleep"
            /\ calls[i + 1].secs = 2 ^ calls[i].attempt
            /\ IF i + 1 = Len(calls)
               THEN \/ pc = "sleep"
                    \/ /\ pc = "get_latest_blockhash"
                       /\ attempt = calls[i].attempt + 1
               ELSE /\ calls[i + 2].op = "get_latest_blockhash"
                    /\ calls[i + 2].attempt = calls[i].attempt + 1
    /\ (sent # << >> /\ sent[Len(sent)].confirmed) =>
         /\ pc = "done"
         /\ result = ReturnedTx(sent[Len(sent)].signature)
         /\ calls[Len(calls)].op = "confirm_transaction"
         /\ ~ENABLED Next

C20_Witness ==
    /\ max_retries = 2
    /\ Len(sent) = 2
    /\ ~sent[1].confirmed
    /\ sent[2].confirmed
    /\ Len(CallsOf({"confirm_transaction"})) = 2
    /\ Len(CallsOf({"sleep"})) = 1

----------------------------------------------------------------------------
(* Properties of calculate_priority_fee, checked under FeeSpec *)

FeeDone == fee_pc = "done"

Minimum(a, b) == IF a < b THEN a ELSE b

\* C4: the base fee is resolved in a fixed order, the first applicable step
\* winning: the estimator's value when dynamic estimation is enabled and the
\* estimator yields one; else the configured fixed value when the fixed fee
\* is enabled; else no fee (None, which is then the result of the call). The
\* estimator is asked at most once per call, and never when dynamic
\* estimation is disabled.
C4_BaseFeeResolutionOrder ==
    /\ estimator_calls <= 1
    /\ ~config.enable_dynamic_fee
          => (estimator_calls = 0 /\ estimate = NoEstimate)
    /\ FeeDone =>
          /\ fee_result.kind = "return"
          /\ config.enable_dynamic_fee => estimator_calls = 1
          /\ base_fee =
                IF config.enable_dynamic_fee /\ estimate.kind = "fee"
                THEN Fee(estimate.v)
                ELSE IF config.enable_fixed_fee
                THEN Fee(config.fixed_fee)
                ELSE NoFee
          /\ ~base_fee.some => fee_result.fee = NoFee

C4_Witness ==
    /\ FeeDone
    /\ config.enable_dynamic_fee
    /\ config.enable_fixed_fee
    /\ estimate.kind = "fee"
    /\ estimate.v # config.fixed_fee
    /\ base_fee = Fee(estimate.v)

\* the configuration of the worked examples: dynamic and fixed enabled,
\* fixed_fee = 1000, extra_fee = 0.1, and the estimator answering "absent"
FeeExample(cap) ==
    /\ FeeDone
    /\ config.enable_dynamic_fee
    /\ config.enable_fixed_fee
    /\ config.fixed_fee = 1000
    /\ config.extra_fee = Ratio(1, 10)
    /\ config.hard_cap = cap
    /\ estimate = EstimateAbsent

\* C5: a fee returned by calculate_priority_fee equals
\* min(floor(base * (1 + extra_fee)), hard_cap) and so never exceeds
\* hard_cap; with the estimator absent, fixed_fee = 1000 and extra_fee = 0.1
\* it is 1100 under hard_cap = 2000 and 1000 under hard_cap = 1000.
C5_MarkupThenCap ==
    /\ (FeeDone /\ fee_result.fee.some) =>
          /\ base_fee.some
          /\ fee_result.fee.v =
                Minimum((base_fee.v * (config.extra_fee.den + config.extra_fee.num))
                            \div config.extra_fee.den,
                        config.hard_cap)
          /\ fee_result.fee.v <= config.hard_cap
    /\ FeeExample(2000) => fee_result = FeeReturned(Fee(1100))
    /\ FeeExample(1000) => fee_result = FeeReturned(Fee(1000))

C5_Witness ==
    /\ FeeExample(1000)
    /\ fee_result = FeeReturned(Fee(1000))
    /\ warnings = 1

----------------------------------------------------------------------------
(* Properties of monitor_pump, checked under MonitorSpec *)

\* the exceptions of a failed decode: struct.error for a payload too short
\* for a length header, UnicodeDecodeError for bytes that are no text
DecodeErrors == {"struct.error", "UnicodeDecodeError"}

\* C7: a decode error on one matching instruction never ends the receive
\* loop of monitor_pump: the loop goes on to the remaining instructions of
\* the message and to the later updates of the feed.
C7_DecodeErrorNeverAborts ==
    ~(/\ mon_pc = "done"
      /\ mon_result.kind = "raise"
      /\ mon_result.exc \in DecodeErrors)

\* C11: resolving an account slot never fails the whole decode: an index
\* value beyond the account list of the transaction yields "N/A" like a slot
\* position beyond the index list of the instruction, so monitor_pump never
\* ends in an IndexError.
C11_AccountSlotNeverFails ==
    ~(/\ mon_pc = "done"
      /\ mon_result.kind = "raise"
      /\ mon_result.exc = "IndexError")

\* the offset after a length-prefixed string that lies wholly inside the
\* payload, -1 when its header or its bytes reach past the end
StringEnd(ix_data, offset) ==
    IF offset = -1 \/ Len(ix_data) < offset + 4
    THEN -1
    ELSE LET end == offset + 4
                    + LittleEndian(Slice(ix_data, offset, offset + 4))
         IN  IF end > Len(ix_data) THEN -1 ELSE end

\* the three strings and the 32-byte address all lie inside the payload
FieldsFit(ix_data) ==
    LET end == StringEnd(ix_data, StringEnd(ix_data, StringEnd(ix_data, 8)))
    IN  end # -1 /\ end + 32 <= Len(ix_data)

\* C12: reading a string or an address fails whenever fewer bytes remain
\* than the field needs: every matching instruction of the update in hand
\* that was decoded without an exception had all its fields inside its
\* payload, so no value is truncated and no cursor passes the end.
C12_ShortReadsFail ==
    (mon_pc = "instruction") =>
        \A j \in 1 .. (ix_i - 1) :
            StartsWithCreatePrefix(update.instructions[j].data)
                => FieldsFit(update.instructions[j].data)

HasCreateDiscriminator(data) ==
    /\ Len(data) >= 8
    /\ \A k \in 1..8 : data[k] = PUMP_CREATE_PREFIX[k]

\* C16: monitor_pump forwards an event only for an instruction of a
\* transaction update whose payload opens with the creation discriminator;
\* an update without a transaction or without a message yields no event and
\* leaves the loop waiting; an instruction with another discriminator is
\* passed over with nothing forwarded and no error.
C16_OnlyCreateInstructionsForwarded ==
    [][/\ printed' # printed =>
             /\ mon_pc = "instruction"
             /\ update.has_transaction /\ update.has_message
             /\ HasCreateDiscriminator(update.instructions[ix_i].data)
             /\ Len(printed') = Len(printed) + 1
       /\ (/\ mon_pc = "await_update"
           /\ feed' # feed
           /\ ~(Head(feed).has_transaction /\ Head(feed).has_message)) =>
             /\ printed' = printed
             /\ mon_pc' = "await_update"
             /\ mon_result' = MonRunning
       /\ (/\ mon_pc = "instruction"
           /\ ~HasCreateDiscriminator(update.instructions[ix_i].data)) =>
             /\ printed' = printed
             /\ mon_pc' # "done"
             /\ mon_result' = MonRunning]_vars

C16_Witness ==
    /\ mon_pc = "await_update"
    /\ update.signature = SigBytes(2)
    /\ ~HasCreateDiscriminator(update.instructions[1].data)
    /\ HasCreateDiscriminator(update.instructions[2].data)
    /\ Len(printed) = 1
    /\ printed[1].signature = b58encode(SigBytes(2))
    /\ mon_result = MonRunning

\* C18: events are forwarded in the order of the feed and, inside one
\* transaction, in the order of its instructions: updates are taken one at
\* a time from the head of the feed and only when the one before is done
\* with, the instructions of the update in hand are handled one after the
\* other, and every event is appended to those forwarded before, made from
\* the instruction in hand and paired with the signature of the transaction
\* in hand.
C18_EventsInFeedOrder ==
    [][/\ feed' # feed =>
             /\ mon_pc = "await_update"
             /\ update' = Head(feed)
             /\ feed' = Tail(feed)
       /\ mon_pc = "instruction" =>
             /\ update' = update
             /\ feed' = feed
             /\ \/ ix_i' = ix_i
                \/ ix_i' = ix_i + 1 /\ mon_pc' = "instruction"
                \/ /\ ix_i = Len(update.instructions)
                   /\ ix_i' = 0
                   /\ mon_pc' = "await_update"
       /\ printed' # printed =>
             /\ mon_pc = "instruction"
             /\ ix_i' # ix_i
             /\ printed' =
                  Append(printed,
                         [info |-> decode_create_instruction(
                                       update.instructions[ix_i].data,
                                       update.account_keys,
                                       update.instructions[ix_i].accounts),
                          signature |-> b58encode(update.signature)])]_vars

C18_Witness ==
    /\ Len(printed) = 3
    /\ printed[1].signature = b58encode(SigBytes(3))
    /\ printed[2].signature = b58encode(SigBytes(3))
    /\ printed[3].signature = b58encode(SigBytes(2))
    /\ printed[1].info.user # NotAvailable
    /\ printed[2].info.user = NotAvailable
    /\ feed = << >>

====
